---- MODULE Spec2Model ----
(***************************************************************************)
(* Model of the API conformance test engine of aas_test_engines/api.py:    *)
(* profile lookup, connectivity probe, per-operation setup / execute, the  *)
(* ConfusionMatrix bookkeeping and the result tree of execute_tests.       *)
(***************************************************************************)
EXTENDS Integers, Sequences, FiniteSets, TLC

VARIABLES
    version,          \* argument version of execute_tests
    suite,            \* argument suite of execute_tests
    conf,             \* argument conf (ExecConf) of execute_tests
    operations,       \* spec.open_api.operations, in declaration order
    pc,               \* position inside execute_tests
    raised,           \* exception that left execute_tests, or "none"
    operation_ids,    \* _available_suites[suite]
    result_root,      \* the tree execute_tests returns
    mat,              \* ConfusionMatrix of the run
    idx,              \* position of the loop over spec.open_api.operations
    test_suite,       \* the ApiTestSuite instance of the current operation
    result_op,        \* "Checking <operation>" node of the current operation
    result_positive,  \* "Semantic tests" node of the current operation
    result_negative,  \* "Syntactic tests" node of the current operation
    probed,           \* history: how the connectivity probe ended
    sent,             \* history: requests attempted, by phase
    last,             \* history: the generated request executed last
    log,              \* history: one entry per operation the loop handled
    crashing,         \* history: every request so far was answered with a 5xx status
    extend_data,      \* argument data of _extend, updated in place
    extend_pc,        \* position inside _extend
    table,            \* history: the dict _extend was called with
    passes,           \* history: passes of the while loop of _extend completed
    substituted,      \* history: members each pass replaced (data[value] found)
    elements,         \* the "result" list of the listing call of the variant's setup
    paths,            \* self.paths of SubmodelElementBySuperpathSuite
    element_pc,       \* position inside SubmodelElementBySuperpathSuite.execute
    type_idx,         \* position of the loop over ALL_TYPES
    result_type,      \* "Checking <model_type>" node of the current type
    element_results,  \* result_positive and result_negative of that execute
    element_last,     \* history: the request of the type loop handled last
    element_sent      \* history: requests that execute sent

vars == << version, suite, conf, operations, pc, raised, operation_ids,
           result_root, mat, idx, test_suite, result_op, result_positive,
           result_negative, probed, sent, last, log, crashing >>

\* the state of a call of _extend
extend_vars == << extend_data, extend_pc, table, passes, substituted >>

\* the state of SubmodelElementBySuperpathSuite.execute
element_vars == << elements, paths, element_pc, type_idx, result_type, element_results,
                   element_last, element_sent >>

-----------------------------------------------------------------------------
(* Bounds of the model *)

\* generated requests of one run, over all request graphs
\* (generate_all(...).generate_paths())
MaxRequests == 3

-----------------------------------------------------------------------------
(* JSON values, as response.json() returns them *)

Str(s) == [t |-> "str", v |-> s]
List(q) == [t |-> "list", v |-> q]
Dict(f) == [t |-> "dict", v |-> f]

\* a body response.json() cannot decode
NonJson == [t |-> "nonjson"]

\* path fragments of _lookup: a str key or an int index
Key(k) == [k |-> "str", v |-> k]
Index(i) == [k |-> "int", v |-> i]

Found(x) == [ok |-> TRUE, value |-> x]
LookupError(m) == [ok |-> FALSE, error |-> m]

RECURSIVE _lookup(_, _, _)
\* idx counts from 0 as in the source; Python list index i is element i + 1
_lookup(value, path, i) ==
    IF i >= Len(path) THEN Found(value)
    ELSE LET fragment == path[i + 1] IN
         IF fragment.k = "str"
         THEN IF value.t # "dict" THEN LookupError("should be an object")
              ELSE IF fragment.v \notin DOMAIN value.v
                   THEN LookupError("key does not exist")
                   ELSE _lookup(value.v[fragment.v], path, i + 1)
         ELSE IF value.t # "list" THEN LookupError("should be an array")
              ELSE IF fragment.v + 1 > Len(value.v)
                   THEN LookupError("array too short")
                   ELSE _lookup(value.v[fragment.v + 1], path, i + 1)

\* _util.b64urlsafe: the URL-safe token of an identifier
b64urlsafe(s) == [t |-> "b64", v |-> s.v]

-----------------------------------------------------------------------------
(* Result tree (result.AasTestResult, result.Level) *)

INFO == 0
WARNING == 1
ERROR == 2
CRITICAL == 3

\* AasTestResult(message, level=...): op and n carry the formatted arguments
\* of the message (an operation id, the numbers of the summary)
AasTestResult(message, level) ==
    [message |-> message, op |-> "", n |-> <<>>, level |-> level, sub_results |-> <<>>]

AasTestResultOp(message, op) ==
    [message |-> message, op |-> op, n |-> <<>>, level |-> INFO, sub_results |-> <<>>]

AasTestResultNum(message, num, den) ==
    [message |-> message, op |-> "", n |-> <<num, den>>, level |-> INFO, sub_results |-> <<>>]

\* result.append(child)
append(result, child) == [result EXCEPT !.sub_results = Append(@, child)]

Max(a, b) == IF a >= b THEN a ELSE b

RECURSIVE MaxLevel_children(_, _)
\* mutant: only the levels of the children themselves are looked at
MaxLevel_children(nodes, i) ==
    IF i > Len(nodes) THEN INFO
    ELSE Max(nodes[i].level, MaxLevel_children(nodes, i + 1))

RECURSIVE EffectiveLevel(_)
RECURSIVE MaxLevel(_, _)
\* the maximum severity among a node and all its descendants
EffectiveLevel(node) == Max(node.level, MaxLevel(node.sub_results, 1))
MaxLevel(nodes, i) ==
    IF i > Len(nodes) THEN INFO
    ELSE Max(EffectiveLevel(nodes[i]), MaxLevel(nodes, i + 1))

\* result.ok()
ok(node) == EffectiveLevel(node) < ERROR

NoResult == [message |-> "", op |-> "", n |-> <<>>, level |-> INFO, sub_results |-> <<>>]

-----------------------------------------------------------------------------
(* fences.core.util.ConfusionMatrix *)

ConfusionMatrix ==
    [valid_accepted |-> 0, valid_rejected |-> 0,
     invalid_accepted |-> 0, invalid_rejected |-> 0]

add(m, is_valid, accepted) ==
    IF is_valid
    THEN IF accepted THEN [m EXCEPT !.valid_accepted = @ + 1]
                     ELSE [m EXCEPT !.valid_rejected = @ + 1]
    ELSE IF accepted THEN [m EXCEPT !.invalid_accepted = @ + 1]
                     ELSE [m EXCEPT !.invalid_rejected = @ + 1]

Total(m) == m.valid_accepted + m.valid_rejected + m.invalid_accepted + m.invalid_rejected

-----------------------------------------------------------------------------
(* Profile table (_available_suites) and its resolution (_extend) *)

SSP_PREFIX == "https://admin-shell.io/aas/API/3/0/"

Entry(key, values) == [key |-> key, values |-> values]

HasKey(data, k) == \E j \in 1..Len(data) : data[j].key = k
Lookup(data, k) == data[CHOOSE j \in 1..Len(data) : data[j].key = k].values

RECURSIVE ExtendValues_unflagged(_, _, _)
\* mutant: a substitution does not clear all_resolved
ExtendValues_unflagged(data, values, i) ==
    IF i > Len(values) THEN [new_values |-> <<>>, all_resolved |-> TRUE]
    ELSE LET rest == ExtendValues_unflagged(data, values, i + 1) IN
         IF HasKey(data, values[i])
         THEN [new_values |-> Lookup(data, values[i]) \o rest.new_values,
               all_resolved |-> rest.all_resolved]
         ELSE [new_values |-> <<values[i]>> \o rest.new_values,
               all_resolved |-> rest.all_resolved]

RECURSIVE ExtendValues(_, _, _)
\* the inner loop of _extend: new_values and whether data[value] succeeded
ExtendValues(data, values, i) ==
    IF i > Len(values) THEN [new_values |-> <<>>, all_resolved |-> TRUE]
    ELSE LET rest == ExtendValues(data, values, i + 1) IN
         IF HasKey(data, values[i])
         THEN [new_values |-> Lookup(data, values[i]) \o rest.new_values,
               all_resolved |-> FALSE]
         ELSE [new_values |-> <<values[i]>> \o rest.new_values,
               all_resolved |-> rest.all_resolved]

\* mutant: every list is built from the dict as it was when the pass began
ExtendPass_snapshot(data, j, all_resolved) ==
    [data |-> [k \in 1..Len(data) |->
                  [data[k] EXCEPT !.values = ExtendValues(data, data[k].values, 1).new_values]],
     all_resolved |-> all_resolved /\ \A k \in j..Len(data) :
                          ExtendValues(data, data[k].values, 1).all_resolved]

RECURSIVE ExtendPass(_, _, _)
\* one pass of "for key, values in data.items()", data[key] assigned in place
\* (new_values is bound to its value before the next key is handled)
ExtendPass(data, j, all_resolved) ==
    IF j > Len(data) THEN [data |-> data, all_resolved |-> all_resolved]
    ELSE CHOOSE pass \in
             { ExtendPass([data EXCEPT ![j].values = e.new_values], j + 1,
                          all_resolved /\ e.all_resolved) :
               e \in { ExtendValues(data, data[j].values, 1) } } : TRUE

RECURSIVE Substitutions(_, _)
\* how often "new_values.extend(data[value])" succeeds in one pass
Substitutions(data, j) ==
    IF j > Len(data) THEN 0
    ELSE Cardinality({i \in 1..Len(data[j].values) : HasKey(data, data[j].values[i])})
         + CHOOSE n \in
               { Substitutions([data EXCEPT ![j].values = new_values], j + 1) :
                 new_values \in { ExtendValues(data, data[j].values, 1).new_values } } : TRUE

RECURSIVE _extend(_)
_extend(data) ==
    LET pass == ExtendPass(data, 1, TRUE) IN
    IF pass.all_resolved THEN pass.data ELSE _extend(pass.data)

SSP_AasRepository_002 ==
    SSP_PREFIX \o "AssetAdministrationShellRepositoryServiceSpecification/SSP-002"

SSP_SubmodelRegistry_001 ==
    SSP_PREFIX \o "SubmodelRegistryServiceSpecification/SSP-001"

SSP_SubmodelRepository_003 ==
    SSP_PREFIX \o "SubmodelRepositoryServiceSpecification/SSP-003"

\* The entries of the table the model runs, in the order of the source; of a
\* long member list the members kept are those of the modelled operations.
_available_suites ==
    _extend(<<
        Entry("Serialization API", <<"GenerateSerializationByIds">>),
        Entry("Submodel Registry API", <<"GetAllSubmodelDescriptors">>),
        Entry("Asset Administration Shell Repository API",
              <<"GetAllAssetAdministrationShells",
                "GetAssetAdministrationShellById",
                "PostAssetAdministrationShell">>),
        Entry("Description API", <<"GetSelfDescription">>),
        Entry("Submodel Registry Service Specification",
              <<"Submodel Registry API", "Description API">>),
        Entry(SSP_SubmodelRegistry_001,
              <<"Submodel Registry Service Specification">>),
        Entry(SSP_AasRepository_002,
              <<"GetAssetAdministrationShellById", "GetDescription">>),
        Entry(SSP_SubmodelRepository_003,
              <<"SubmodelRepositoryServiceSpecification/SSP-001">>)
    >>)

SuiteNames == {_available_suites[j].key : j \in 1..Len(_available_suites)}

\* a suite name execute_tests can be called with that is no key of the table
UnknownSuite == "No Such Profile"

-----------------------------------------------------------------------------
(* API contracts (_specs) and the operation registry of a contract *)

_DEFAULT_VERSION == "3.0"
UnknownVersion == "0.0"

\* operation ids of data/api/3.0.yml, in declaration order; the
\* self-description operation under the id _test_suites registers
Operations ==
    << "GetAllAssetAdministrationShells",
       "PostAssetAdministrationShell",
       "GetAssetAdministrationShellById",
       "GenerateSerializationByIds",
       "GetAllSubmodelDescriptors",
       "GetDescription" >>

\* the same contract with the self-description operation under the id the
\* profile "Description API" lists
OperationsSelfDescription ==
    [Operations EXCEPT ![Len(Operations)] = "GetSelfDescription"]

Range(q) == {q[j] : j \in 1..Len(q)}

\* mutant: an unknown version falls back to the default contract
_get_spec_fallback(v) == [ok |-> TRUE]

\* _specs[version]
_get_spec(v) ==
    IF v = _DEFAULT_VERSION THEN [ok |-> TRUE] ELSE [ok |-> FALSE]

-----------------------------------------------------------------------------
(* Test-case variants (_test_suites) *)

_test_suites ==
    [op \in { "GetAllAssetAdministrationShells",
              "GetAssetAdministrationShellById",
              "GenerateSerializationByIds",
              "GetDescription" } |->
        CASE op = "GetAllAssetAdministrationShells" -> "GetAllAasTestSuite"
          [] op = "GetAssetAdministrationShellById" -> "GetAasById"
          [] op = "GenerateSerializationByIds" -> "GenerateSerializationSuite"
          [] op = "GetDescription" -> "GetDescriptionTestSuite"]

\* ApiTestSuite.__init__: valid_values starts empty
ApiTestSuite(cls, operation) ==
    [cls |-> cls, operation |-> operation, valid_values |-> <<>>]

NoSuite == [cls |-> "", operation |-> "", valid_values |-> <<>>]

-----------------------------------------------------------------------------
(* The server: what request.execute(server) can come back with *)

\* status codes at and next to the limits of the classification
StatusCodes == {200, 399, 400, 499, 500}

\* a listing with one shell, its submodel reference and a cursor
ShellsBody ==
    Dict([paging_metadata |-> Dict([cursor |-> Str("cursor1")]),
          result |-> List(<< Dict([idShort |-> Str("shell1"),
                                   id |-> Str("id1"),
                                   submodels |-> List(<< Dict([keys |->
                                       List(<< Dict([value |-> Str("sm1")]) >>)]) >>)]) >>)])

\* a listing without any shell
NoShellsBody ==
    Dict([paging_metadata |-> Dict([cursor |-> Str("cursor1")]),
          result |-> List(<< >>)])

\* a self-description advertising the given profiles
DescriptionBody(profiles) == Dict([Profiles |-> List(profiles)])

\* JSON that is an array, not an object
ArrayBody == List(<< >>)

\* a JSON object with none of the fields looked up
OtherBody == Dict([message |-> Str("error")])

Bodies ==
    { ShellsBody, NoShellsBody, ArrayBody, OtherBody, NonJson,
      DescriptionBody(<< >>),
      DescriptionBody(<< Str("Description API") >>),
      DescriptionBody(<< Str(SSP_AasRepository_002) >>) }

\* requests.exceptions.RequestException raised by the transport
ConnectionFailed == [status_code |-> 0, body |-> NonJson, failed |-> TRUE]

Responses ==
    { [status_code |-> c, body |-> b, failed |-> FALSE] : c \in StatusCodes, b \in Bodies }
    \cup { ConnectionFailed }

-----------------------------------------------------------------------------
(* setup of the variants *)

\* _make_invoke_result(request)
_make_invoke_result(operation) == AasTestResultOp("Invoke", operation)

SetupOk(result, valid_values) ==
    [kind |-> "ok", error |-> "", result |-> result, valid_values |-> valid_values]
\* ApiTestSuiteException(message), which execute_tests catches
SetupFailed(result, message) ==
    [kind |-> "ApiTestSuiteException", error |-> message, result |-> result,
     valid_values |-> <<>>]
\* any other exception, which nothing catches
SetupRaised(result, exception) ==
    [kind |-> "raised", error |-> exception, result |-> result, valid_values |-> <<>>]

\* mutant: only an error status fails the prerequisite call
ListShells_errors_only(result, response, what) ==
    LET invoked == append(result, _make_invoke_result("GetAllAssetAdministrationShells")) IN
    IF response.failed THEN SetupRaised(invoked, "RequestException")
    ELSE IF response.status_code >= 400
         THEN SetupFailed(invoked, "Cannot look up " \o what \o ", got status")
    ELSE IF response.body = NonJson THEN SetupRaised(invoked, "JSONDecodeError")
    ELSE SetupOk(invoked, <<>>)

\* the common head of every setup: list the shells with limit 1, require
\* status 200 and decode the body; `what` is the name in the error message
ListShells(result, response, what) ==
    LET invoked == append(result, _make_invoke_result("GetAllAssetAdministrationShells")) IN
    IF response.failed THEN SetupRaised(invoked, "RequestException")
    ELSE IF response.status_code # 200
         THEN SetupFailed(invoked, "Cannot look up " \o what \o ", got status")
    ELSE IF response.body = NonJson THEN SetupRaised(invoked, "JSONDecodeError")
    ELSE SetupOk(invoked, <<>>)

\* GetAllAasTestSuite.setup
GetAllAasTestSuite_setup(result, response) ==
    LET head == ListShells(result, response, "idShort")
        cursor == _lookup(response.body, << Key("paging_metadata"), Key("cursor") >>, 0)
        idShort == _lookup(response.body, << Key("result"), Index(0), Key("idShort") >>, 0)
    IN  IF head.kind # "ok" THEN head
        ELSE IF ~cursor.ok THEN SetupFailed(head.result, cursor.error)
        ELSE IF ~idShort.ok THEN SetupFailed(head.result, idShort.error)
        ELSE SetupOk(head.result,
                     [limit |-> << [t |-> "int", v |-> 1] >>,
                      cursor |-> << cursor.value >>,
                      idShort |-> << idShort.value >>])

\* GetAasById.setup
GetAasById_setup(result, response) ==
    LET head == ListShells(result, response, "aasIdentifier")
        valid_id == _lookup(response.body, << Key("result"), Index(0), Key("id") >>, 0)
    IN  IF head.kind # "ok" THEN head
        ELSE IF ~valid_id.ok THEN SetupFailed(head.result, valid_id.error)
        ELSE SetupOk(head.result, [aasIdentifier |-> << b64urlsafe(valid_id.value) >>])

\* GenerateSerializationSuite.setup
GenerateSerializationSuite_setup(result, response) ==
    LET head == ListShells(result, response, "submodelIdentifier")
        valid_id == _lookup(response.body, << Key("result"), Index(0), Key("id") >>, 0)
        valid_submodel_id ==
            _lookup(response.body,
                    << Key("result"), Index(0), Key("submodels"), Index(0),
                       Key("keys"), Index(0), Key("value") >>, 0)
    IN  IF head.kind # "ok" THEN head
        ELSE IF ~valid_id.ok THEN SetupFailed(head.result, valid_id.error)
        ELSE IF ~valid_submodel_id.ok THEN SetupFailed(head.result, valid_submodel_id.error)
        ELSE SetupOk(head.result,
                     [aasIds |-> << List(<< b64urlsafe(valid_id.value) >>) >>,
                      submodelIds |-> << List(<< b64urlsafe(valid_submodel_id.value) >>) >>])

\* whether the variant's setup sends a request (ApiTestSuite.setup is "pass")
SendsSetupRequest(cls) == cls # "GetDescriptionTestSuite"

\* test_suite.setup(result), by the class of test_suite
setup(cls, result, response) ==
    CASE cls = "GetAllAasTestSuite" -> GetAllAasTestSuite_setup(result, response)
      [] cls = "GetAasById" -> GetAasById_setup(result, response)
      [] cls = "GenerateSerializationSuite" -> GenerateSerializationSuite_setup(result, response)
      [] OTHER -> SetupOk(result, <<>>)

-----------------------------------------------------------------------------
(* execute of the variants *)

Executed(result) == [raised |-> "none", result |-> result]
ExecuteRaised(result, exception) == [raised |-> exception, result |-> result]

\* mutant: the crash limit is "> 500"
execute_syntactic_test_gt(result, operation, response) ==
    LET result_request == _make_invoke_result(operation) IN
    IF response.failed THEN ExecuteRaised(result, "RequestException")
    ELSE IF response.status_code > 500
         THEN Executed(append(append(result, AasTestResult("Server crashed", CRITICAL)),
                              result_request))
    ELSE IF response.status_code >= 400
         THEN Executed(append(result, append(result_request, AasTestResult("Ok", INFO))))
    ELSE Executed(append(result, append(result_request,
                      AasTestResult("Got status code, but expected 4xx", ERROR))))

\* ApiTestSuite.execute_syntactic_test
execute_syntactic_test(result, operation, response) ==
    LET result_request == _make_invoke_result(operation) IN
    IF response.failed THEN ExecuteRaised(result, "RequestException")
    ELSE IF response.status_code >= 500
         THEN Executed(append(append(result, AasTestResult("Server crashed", CRITICAL)),
                              result_request))
    ELSE IF response.status_code >= 400
         THEN Executed(append(result, append(result_request, AasTestResult("Ok", INFO))))
    ELSE Executed(append(result, append(result_request,
                      AasTestResult("Got status code, but expected 4xx", ERROR))))

\* mutant: the client-error limit is "> 400"
ApiTestSuite_execute_semantic_test_gt(result, operation, response) ==
    LET result_request == _make_invoke_result(operation) IN
    IF response.failed THEN ExecuteRaised(result, "RequestException")
    ELSE IF response.status_code >= 500
         THEN Executed(append(append(result, AasTestResult("Server crashed", CRITICAL)),
                              result_request))
    ELSE IF response.status_code > 400
         THEN Executed(append(result, append(result_request,
                           AasTestResult("Got status code, but expected 2xx", ERROR))))
    ELSE Executed(append(result, append(result_request, AasTestResult("Ok", INFO))))

\* ApiTestSuite.execute_semantic_test
ApiTestSuite_execute_semantic_test(result, operation, response) ==
    LET result_request == _make_invoke_result(operation) IN
    IF response.failed THEN ExecuteRaised(result, "RequestException")
    ELSE IF response.status_code >= 500
         THEN Executed(append(append(result, AasTestResult("Server crashed", CRITICAL)),
                              result_request))
    ELSE IF response.status_code >= 400
         THEN Executed(append(result, append(result_request,
                           AasTestResult("Got status code, but expected 2xx", ERROR))))
    ELSE Executed(append(result, append(result_request, AasTestResult("Ok", INFO))))

\* "self.suite not in profiles" for the JSON value profiles
NotIn(name, profiles) ==
    IF profiles.t = "list" THEN Str(name) \notin Range(profiles.v)
    ELSE name \notin DOMAIN profiles.v

\* GetDescriptionTestSuite.execute_semantic_test
GetDescriptionTestSuite_execute_semantic_test(self_suite, result, operation, response) ==
    LET base == ApiTestSuite_execute_semantic_test(result, operation, response)
        data == response.body
    IN  IF base.raised # "none" THEN base
        ELSE IF data = NonJson THEN ExecuteRaised(base.result, "JSONDecodeError")
        ELSE IF data.t # "dict" THEN ExecuteRaised(base.result, "TypeError")
        ELSE IF "Profiles" \notin DOMAIN data.v THEN ExecuteRaised(base.result, "KeyError")
        ELSE IF NotIn(self_suite, data.v.Profiles)
             THEN Executed(append(base.result,
                               AasTestResult("Suite not part of profiles", ERROR)))
        ELSE base

\* self.execute_semantic_test(request, result), by the class of self
execute_semantic_test(self, self_suite, result, response) ==
    IF self.cls = "GetDescriptionTestSuite"
    THEN GetDescriptionTestSuite_execute_semantic_test(self_suite, result, self.operation, response)
    ELSE ApiTestSuite_execute_semantic_test(result, self.operation, response)

\* the test ApiTestSuite.execute gives a generated request
TestOf(is_valid) == IF is_valid THEN "semantic" ELSE "syntactic"

RECURSIVE AddAll(_, _, _, _)
\* "for i in result.sub_results: mat.add(...)" of execute_tests
AddAll(m, sub_results, is_valid, i) ==
    IF i > Len(sub_results) THEN m
    ELSE AddAll(add(m, is_valid, IF is_valid THEN ok(sub_results[i]) ELSE ~ok(sub_results[i])),
                sub_results, is_valid, i + 1)

-----------------------------------------------------------------------------
(* execute_tests *)

\* mutant: an unreachable server is only warned about
_check_server_warns(exec_conf, answered) ==
    LET result == AasTestResult("Trying to reach", INFO) IN
    IF exec_conf.dry THEN append(result, AasTestResult("Skipped due to dry run", WARNING))
    ELSE IF answered THEN append(result, AasTestResult("OK", INFO))
    ELSE append(result, AasTestResult("Failed to reach", WARNING))

\* mutant: the answer of a reachable server is recorded as a failure
_check_server_rejects(exec_conf, answered) ==
    LET result == AasTestResult("Trying to reach", INFO) IN
    IF exec_conf.dry THEN append(result, AasTestResult("Skipped due to dry run", WARNING))
    ELSE IF answered THEN append(result, AasTestResult("OK", ERROR))
    ELSE append(result, AasTestResult("Failed to reach", ERROR))

\* mutant: the dry-run flag is not looked at
_check_server_not_dry(exec_conf, answered) ==
    LET result == AasTestResult("Trying to reach", INFO) IN
    IF answered THEN append(result, AasTestResult("OK", INFO))
    ELSE append(result, AasTestResult("Failed to reach", ERROR))

\* _check_server(server, exec_conf); answered is whether requests.get returned
_check_server(exec_conf, answered) ==
    LET result == AasTestResult("Trying to reach", INFO) IN
    IF exec_conf.dry THEN append(result, AasTestResult("Skipped due to dry run", WARNING))
    ELSE IF answered THEN append(result, AasTestResult("OK", INFO))
    ELSE append(result, AasTestResult("Failed to reach", ERROR))

\* ctr = _test_suites[operation.operation_id]
ctr(operation_id) ==
    IF operation_id \in DOMAIN _test_suites
    THEN [found |-> TRUE, cls |-> _test_suites[operation_id]]
    ELSE [found |-> FALSE, cls |-> ""]

NoRequest == [operation |-> "", is_valid |-> FALSE, test |-> "", answered |-> FALSE,
              status_code |-> 0, advertised |-> "none", classified |-> <<>>,
              appended |-> <<>>]
NoProbe == [attempted |-> FALSE, answered |-> FALSE, status_code |-> 0]

\* what the server gave the prerequisite call of a setup
Prerequisite(response) ==
    IF response.failed THEN "unanswered"
    ELSE IF response.status_code # 200 THEN "status"
    ELSE IF response.body = NonJson THEN "nonjson"
    ELSE IF response.body = ShellsBody THEN "complete"
    ELSE "missing"

\* the class of a status code: below 400, 400-499, 500 and above
StatusClass(status_code) ==
    IF status_code >= 500 THEN "5xx" ELSE IF status_code >= 400 THEN "4xx" ELSE "lt400"

\* how many generated requests of an operation were answered, by ground truth
\* and class of the status
NoTally == [k \in BOOLEAN \X {"lt400", "4xx", "5xx"} |-> 0]

\* whether a body is a self-description: an object with a list "Profiles"
HasProfiles(body) ==
    /\ body # NonJson /\ body.t = "dict"
    /\ "Profiles" \in DOMAIN body.v
    /\ body.v.Profiles.t = "list"

\* whether a self-description body advertises the profile
Advertises(body, name) ==
    HasProfiles(body) /\ Str(name) \in Range(body.v.Profiles.v)

LogEntry(operation, cls, state) ==
    [operation |-> operation, cls |-> cls, setup |-> state, prerequisite |-> "none",
     generated |-> 0, tally |-> NoTally, unadvertised |-> 0, added |-> 0,
     counted |-> ConfusionMatrix, executed |-> FALSE]

NoElementRequest ==
    [model_type |-> "", is_valid |-> FALSE, has_extend |-> FALSE, has_level |-> FALSE,
     test |-> "", answered |-> FALSE, status_code |-> 0, appended |-> <<>>]

\* no call of _extend under way
ExtendIdle ==
    /\ extend_data = <<>>
    /\ extend_pc = "idle"
    /\ table = <<>>
    /\ passes = 0
    /\ substituted = <<>>

\* no SubmodelElementBySuperpathSuite.execute under way
ElementIdle ==
    /\ elements = <<>>
    /\ paths = <<>>
    /\ element_pc = "idle"
    /\ type_idx = 0
    /\ result_type = NoResult
    /\ element_results = [positive |-> NoResult, negative |-> NoResult]
    /\ element_last = NoElementRequest
    /\ element_sent = 0

\* execute_tests is entered
Entered ==
    /\ pc = "start"
    /\ raised = "none"
    /\ operation_ids = <<>>
    /\ result_root = NoResult
    /\ mat = ConfusionMatrix
    /\ idx = 0
    /\ test_suite = NoSuite
    /\ result_op = NoResult
    /\ result_positive = NoResult
    /\ result_negative = NoResult
    /\ probed = NoProbe
    /\ sent = [probe |-> 0, setup |-> 0, generated |-> 0]
    /\ last = NoRequest
    /\ log = <<>>
    /\ crashing = TRUE

Init ==
    /\ version \in {_DEFAULT_VERSION, UnknownVersion}
    /\ suite \in SuiteNames \cup {UnknownSuite}
    /\ conf \in [dry : BOOLEAN]
    /\ operations \in {Operations, OperationsSelfDescription}
    /\ Entered
    /\ ExtendIdle
    /\ ElementIdle

Raise(exception) ==
    /\ raised' = exception
    /\ pc' = "done"

\* lines 693-706: the contract, the profile, the sanity check, the root node
Resolve ==
    /\ pc = "start"
    /\ IF ~_get_spec(version).ok \/ ~HasKey(_available_suites, suite)
       THEN Raise("AasTestToolsException") /\ UNCHANGED << operation_ids, result_root >>
       ELSE LET ids == Lookup(_available_suites, suite) IN
            IF \E i \in 1..Len(ids) : ids[i] \notin Range(operations)
            THEN Raise("AasTestToolsException") /\ UNCHANGED << operation_ids, result_root >>
            ELSE /\ operation_ids' = ids
                 /\ result_root' = AasTestResultOp("Checking compliance to", suite)
                 /\ pc' = "check_server"
                 /\ UNCHANGED raised
    /\ UNCHANGED << version, suite, conf, operations, mat, idx, test_suite, result_op,
                    result_positive, result_negative, probed, sent, last, log >>
    /\ UNCHANGED crashing
    /\ UNCHANGED << extend_vars, element_vars >>

\* lines 708-715: the connectivity probe
CheckServer ==
    /\ pc = "check_server"
    /\ \E answered \in BOOLEAN, code \in StatusCodes :
         LET r == _check_server(conf, answered)
             root == append(result_root, r)
         IN  /\ conf.dry => answered /\ code = 200
             /\ ~answered => code = 200
             /\ result_root' = root
             /\ probed' = IF conf.dry THEN NoProbe
                          ELSE [attempted |-> TRUE, answered |-> answered,
                                status_code |-> IF answered THEN code ELSE 0]
             /\ sent' = IF conf.dry THEN sent ELSE [sent EXCEPT !.probe = @ + 1]
             /\ crashing' = IF conf.dry THEN crashing
                            ELSE crashing /\ answered /\ code >= 500
             /\ IF ok(root) THEN pc' = "operations" /\ idx' = 1
                            ELSE pc' = "done" /\ idx' = idx
    /\ mat' = ConfusionMatrix
    /\ UNCHANGED << version, suite, conf, operations, raised, operation_ids, test_suite,
                    result_op, result_positive, result_negative, last, log >>
    /\ UNCHANGED << extend_vars, element_vars >>

InLoop == pc = "operations" /\ idx <= Len(operations)

\* lines 716-718: an operation outside the resolved set
OperationSkip ==
    /\ InLoop
    /\ operations[idx] \notin Range(operation_ids)
    /\ idx' = idx + 1
    /\ UNCHANGED << version, suite, conf, operations, pc, raised, operation_ids,
                    result_root, mat, test_suite, result_op, result_positive,
                    result_negative, probed, sent, last, log >>
    /\ UNCHANGED crashing
    /\ UNCHANGED << extend_vars, element_vars >>

\* lines 719-722: an operation of the resolved set in a dry run
OperationDry ==
    /\ InLoop
    /\ operations[idx] \in Range(operation_ids)
    /\ conf.dry
    /\ result_root' = append(result_root, AasTestResultOp("Checking", operations[idx]))
    /\ idx' = idx + 1
    /\ log' = Append(log, LogEntry(operations[idx], "", "dry"))
    /\ UNCHANGED << version, suite, conf, operations, pc, raised, operation_ids,
                    mat, test_suite, result_op, result_positive, result_negative,
                    probed, sent, last >>
    /\ UNCHANGED crashing
    /\ UNCHANGED << extend_vars, element_vars >>

\* lines 719, 724-725: the variant of an operation of the resolved set
Dispatch ==
    /\ InLoop
    /\ operations[idx] \in Range(operation_ids)
    /\ ~conf.dry
    /\ LET c == ctr(operations[idx]) IN
       IF c.found
       THEN /\ test_suite' = ApiTestSuite(c.cls, operations[idx])
            /\ result_op' = AasTestResultOp("Checking", operations[idx])
            /\ log' = Append(log, LogEntry(operations[idx], c.cls, "pending"))
            /\ pc' = "setup"
            /\ UNCHANGED raised
       ELSE /\ Raise("KeyError")
            /\ log' = Append(log, LogEntry(operations[idx], "", "raised"))
            /\ UNCHANGED << test_suite, result_op >>
    /\ UNCHANGED << version, suite, conf, operations, operation_ids, result_root, mat,
                    idx, result_positive, result_negative, probed, sent, last >>
    /\ UNCHANGED crashing
    /\ UNCHANGED << extend_vars, element_vars >>

\* lines 727-735 and 745: setup of the variant, and the operation's end when
\* the setup failed
Setup ==
    /\ pc = "setup"
    /\ \E response \in Responses :
         LET out == setup(test_suite.cls, AasTestResult("Setup", INFO), response)
             result_before_suite ==
                 IF out.kind = "ok"
                 THEN append(out.result, AasTestResult("Valid values", INFO))
                 ELSE append(out.result, AasTestResult("Failed: " \o out.error, ERROR))
             op == append(result_op, result_before_suite)
             Outcome(e) == [e EXCEPT !.setup = IF out.kind = "ok" THEN "ok"
                                               ELSE IF out.kind = "raised" THEN "raised"
                                               ELSE "failed",
                                     !.prerequisite =
                                         IF SendsSetupRequest(test_suite.cls)
                                         THEN Prerequisite(response) ELSE "none"]
         IN  /\ sent' = IF SendsSetupRequest(test_suite.cls)
                        THEN [sent EXCEPT !.setup = @ + 1] ELSE sent
             /\ log' = [log EXCEPT ![Len(log)] = Outcome(@)]
             /\ crashing' = IF SendsSetupRequest(test_suite.cls)
                            THEN crashing /\ ~response.failed /\ response.status_code >= 500
                            ELSE crashing
             /\ IF out.kind = "raised"
                THEN /\ Raise(out.error)
                     /\ UNCHANGED << result_root, idx, test_suite, result_op,
                                     result_positive, result_negative >>
                ELSE IF ok(op)
                THEN /\ test_suite' = [test_suite EXCEPT !.valid_values = out.valid_values]
                     /\ result_op' = op
                     /\ result_negative' = AasTestResult("Syntactic tests", INFO)
                     /\ result_positive' = AasTestResult("Semantic tests", INFO)
                     /\ pc' = "execute"
                     /\ UNCHANGED << raised, result_root, idx >>
                ELSE /\ result_root' = append(result_root, op)
                     /\ idx' = idx + 1
                     /\ pc' = "operations"
                     /\ test_suite' = NoSuite
                     /\ result_op' = NoResult
                     /\ UNCHANGED << raised, result_positive, result_negative >>
    /\ UNCHANGED << version, suite, conf, operations, operation_ids, mat, probed, last >>
    /\ UNCHANGED << extend_vars, element_vars >>

\* the nodes a test appended to its result node
Appended(before, after) ==
    SubSeq(after.sub_results, Len(before.sub_results) + 1, Len(after.sub_results))

\* lines 436-442: one path of the request graph of ApiTestSuite.execute
ExecuteRequest ==
    /\ pc = "execute"
    /\ sent.generated < MaxRequests
    /\ \E is_valid \in BOOLEAN, response \in Responses :
         LET before == IF is_valid THEN result_positive ELSE result_negative
             out == IF is_valid
                    THEN execute_semantic_test(test_suite, suite, result_positive, response)
                    ELSE execute_syntactic_test(result_negative, test_suite.operation, response)
             base == IF is_valid
                     THEN ApiTestSuite_execute_semantic_test(result_positive,
                              test_suite.operation, response)
                     ELSE out
             advertised ==
                 IF test_suite.cls # "GetDescriptionTestSuite" \/ ~is_valid \/ response.failed
                 THEN "none"
                 ELSE IF ~HasProfiles(response.body) THEN "unreadable"
                 ELSE IF Advertises(response.body, suite) THEN "yes" ELSE "no"
             Count(e) ==
                 [e EXCEPT !.generated = @ + 1,
                           !.tally = IF response.failed THEN @
                                     ELSE [@ EXCEPT ![<<is_valid, StatusClass(response.status_code)>>] = @ + 1],
                           !.unadvertised = IF advertised \in {"no", "unreadable"}
                                            THEN @ + 1 ELSE @]
         IN  /\ sent' = [sent EXCEPT !.generated = @ + 1]
             /\ log' = [log EXCEPT ![Len(log)] = Count(@)]
             /\ crashing' = (crashing /\ ~response.failed /\ response.status_code >= 500)
             /\ last' = [operation |-> test_suite.operation, is_valid |-> is_valid,
                         test |-> TestOf(is_valid),
                         answered |-> ~response.failed,
                         status_code |-> response.status_code,
                         advertised |-> advertised,
                         classified |-> Appended(before, base.result),
                         appended |-> Appended(before, out.result)]
             /\ IF out.raised # "none"
                THEN Raise(out.raised) /\ UNCHANGED << result_positive, result_negative >>
                ELSE /\ result_positive' = IF is_valid THEN out.result ELSE result_positive
                     /\ result_negative' = IF is_valid THEN result_negative ELSE out.result
                     /\ UNCHANGED << pc, raised >>
    /\ UNCHANGED << version, suite, conf, operations, operation_ids, result_root, mat,
                    idx, test_suite, result_op, probed >>
    /\ UNCHANGED << extend_vars, element_vars >>

\* lines 739-745: the request graph is exhausted
ExecuteDone ==
    /\ pc = "execute"
    /\ LET op == append(append(result_op, result_negative), result_positive)
           counted == AddAll(AddAll(mat, result_positive.sub_results, TRUE, 1),
                             result_negative.sub_results, FALSE, 1)
           Done(e) ==
               [e EXCEPT !.executed = TRUE,
                         !.added = Total(counted) - Total(mat),
                         !.counted = [f \in DOMAIN mat |-> counted[f] - mat[f]]]
       IN  /\ mat' = counted
           /\ result_root' = append(result_root, op)
           /\ log' = [log EXCEPT ![Len(log)] = Done(@)]
    /\ idx' = idx + 1
    /\ pc' = "operations"
    /\ test_suite' = NoSuite
    /\ result_op' = NoResult
    /\ result_positive' = NoResult
    /\ result_negative' = NoResult
    /\ last' = NoRequest
    /\ UNCHANGED << version, suite, conf, operations, raised, operation_ids, probed, sent >>
    /\ UNCHANGED crashing
    /\ UNCHANGED << extend_vars, element_vars >>

\* lines 746-750: the summary, and the tree is returned
Summary ==
    /\ pc = "operations"
    /\ idx > Len(operations)
    /\ LET result_summary ==
               append(append(AasTestResult("Summary", INFO),
                   AasTestResultNum("Syntactic tests passed", mat.invalid_rejected,
                                    mat.invalid_accepted + mat.invalid_rejected)),
                   AasTestResultNum("Semantic tests passed", mat.valid_accepted,
                                    mat.valid_accepted + mat.valid_rejected))
       IN  result_root' = append(result_root, result_summary)
    /\ pc' = "done"
    /\ UNCHANGED << version, suite, conf, operations, raised, operation_ids, mat, idx,
                    test_suite, result_op, result_positive, result_negative, probed,
                    sent, last, log >>
    /\ UNCHANGED crashing
    /\ UNCHANGED << extend_vars, element_vars >>

Next ==
    \/ Resolve
    \/ CheckServer
    \/ OperationSkip
    \/ OperationDry
    \/ Dispatch
    \/ Setup
    \/ ExecuteRequest
    \/ ExecuteDone
    \/ Summary

Spec == Init /\ [][Next]_vars

-----------------------------------------------------------------------------
(* _extend, pass by pass, on the profile tables of a bounded family *)

\* members of all the lists of a table together
MaxMembers == 4

\* passes of the while loop followed
MaxPasses == 5

\* members of one list beyond which a table is followed no further
MaxExpansion == 16

\* the keys of the tables, in the order of the dict, and the operation ids
ProfileKeys == << "Profile A", "Profile B", "Profile C" >>
LeafIds == { "GetThing", "PutThing" }
MemberNames == Range(ProfileKeys) \cup LeafIds

\* a dict with the keys ProfileKeys and the three lists
Table(l1, l2, l3) ==
    << Entry(ProfileKeys[1], l1), Entry(ProfileKeys[2], l2), Entry(ProfileKeys[3], l3) >>

RECURSIVE ReachFrom(_, _)
\* the names reachable from the names of S through the member relation of t
ReachFrom(t, S) ==
    LET more == S \cup UNION {Range(Lookup(t, m)) : m \in {x \in S : HasKey(t, x)}}
    IN  IF more = S THEN S ELSE ReachFrom(t, more)

\* the execute_tests side of the state while _extend is followed on its own
Unused ==
    /\ version = _DEFAULT_VERSION
    /\ suite = UnknownSuite
    /\ conf = [dry |-> FALSE]
    /\ operations = Operations
    /\ Entered

InitExtend ==
    /\ Unused
    /\ ElementIdle
    /\ \E n1, n2, n3 \in 0..MaxMembers :
          /\ n1 + n2 + n3 <= MaxMembers
          /\ \E l1 \in [1..n1 -> MemberNames], l2 \in [1..n2 -> MemberNames],
                l3 \in [1..n3 -> MemberNames] :
                table = Table(l1, l2, l3)
    /\ extend_data = table
    /\ extend_pc = "while"
    /\ passes = 0
    /\ substituted = <<>>

\* the longest list of a dict
Longest(d) ==
    LET lens == {Len(d[j].values) : j \in 1..Len(d)}
    IN  CHOOSE n \in lens : \A other \in lens : other <= n

\* lines 49-59: one pass of "while True" that finds a member to substitute
ExtendAgain ==
    /\ extend_pc = "while"
    /\ passes < MaxPasses
    /\ \E pass \in { ExtendPass(extend_data, 1, TRUE) } :
          /\ ~pass.all_resolved
          /\ Longest(pass.data) <= MaxExpansion
          /\ extend_data' = pass.data
    /\ passes' = passes + 1
    /\ substituted' = Append(substituted, Substitutions(extend_data, 1))
    /\ UNCHANGED << extend_pc, table >>
    /\ UNCHANGED << vars, element_vars >>

\* lines 49-61: the pass that substitutes nothing, and the return
ExtendReturn ==
    /\ extend_pc = "while"
    /\ \E pass \in { ExtendPass(extend_data, 1, TRUE) } :
          /\ pass.all_resolved
          /\ extend_data' = pass.data
    /\ passes' = passes + 1
    /\ substituted' = Append(substituted, Substitutions(extend_data, 1))
    /\ extend_pc' = "returned"
    /\ UNCHANGED table
    /\ UNCHANGED << vars, element_vars >>

NextExtend ==
    \/ ExtendAgain
    \/ ExtendReturn

SpecExtend == InitExtend /\ [][NextExtend]_extend_vars

\* _extend called with a table in which no profile reaches itself
InitExtendAcyclic ==
    /\ InitExtend
    /\ \A j \in 1..Len(table) :
          table[j].key \notin ReachFrom(table, Range(table[j].values))

\* the while loop of _extend keeps running: no pass is put off for ever
SpecExtendFair ==
    InitExtendAcyclic /\ [][NextExtend]_extend_vars /\ WF_extend_vars(NextExtend)

-----------------------------------------------------------------------------
(* SubmodelElementBySuperpathSuite.execute *)

\* element types with an element on the server
MaxPresent == 1

\* requests one execute of the variant sends, over all its request graphs
MaxElementRequests == 2

ALL_TYPES ==
    << "SubmodelElementCollection", "SubmodelElementList", "Entity",
       "BasicEventElement", "Capability", "Operation", "Property",
       "MultiLanguageProperty", "Range", "ReferenceElement", "RelationshipElement",
       "AnnotatedRelationshipElement", "Blob", "File" >>

\* the operation the variant is registered for
ElementOperation == "GetSubmodelElementByPath_AasRepository"

\* mutant: Entity is not among the types always tested semantically
ElementTest_without_entity(model_type, has_extend, has_level) ==
    IF \/ (~has_extend /\ ~has_level)
       \/ model_type \in {"SubmodelElementCollection", "SubmodelElementList"}
       \/ (model_type \in {"Blob"} /\ ~has_level)
    THEN "semantic" ELSE "syntactic"

\* lines 588-593: the test given to a valid request of the type loop
ElementTest(model_type, has_extend, has_level) ==
    IF \/ (~has_extend /\ ~has_level)
       \/ model_type \in {"SubmodelElementCollection", "SubmodelElementList", "Entity"}
       \/ (model_type \in {"Blob"} /\ ~has_level)
    THEN "semantic" ELSE "syntactic"

\* the answers to the requests of the variant, one status of each class;
\* the body is not looked at
ElementResponses ==
    { [status_code |-> c, body |-> OtherBody, failed |-> FALSE] : c \in {200, 400, 500} }
    \cup { ConnectionFailed }

\* self.paths as setup leaves it: the idShort paths found, by model type;
\* an idShort can be the empty string
InitElement ==
    /\ Unused
    /\ ExtendIdle
    /\ \E present \in SUBSET Range(ALL_TYPES), id_short \in {"", "element"} :
          /\ Cardinality(present) <= MaxPresent
          /\ paths = [model_type \in present |-> << id_short >>]
    /\ elements = <<>>
    /\ element_pc = "graph"
    /\ type_idx = 0
    /\ result_type = NoResult
    /\ element_results = [positive |-> AasTestResult("Semantic tests", INFO),
                          negative |-> AasTestResult("Syntactic tests", INFO)]
    /\ element_last = NoElementRequest
    /\ element_sent = 0

\* lines 565-568: a valid path of the first request graph is skipped
ElementGraphValid ==
    /\ element_pc = "graph"
    /\ element_last' = [NoElementRequest EXCEPT !.is_valid = TRUE, !.test = "none"]
    /\ UNCHANGED << paths, element_pc, type_idx, result_type, element_results, element_sent >>
    /\ UNCHANGED elements
    /\ UNCHANGED << vars, extend_vars >>

\* lines 565-570: an invalid path of the first request graph
ElementGraphInvalid ==
    /\ element_pc = "graph"
    /\ element_sent < MaxElementRequests
    /\ \E response \in ElementResponses :
         LET out == execute_syntactic_test(element_results.negative, ElementOperation, response)
         IN  /\ element_last' =
                    [NoElementRequest EXCEPT
                        !.test = "syntactic", !.answered = ~response.failed,
                        !.status_code = response.status_code,
                        !.appended = Appended(element_results.negative, out.result)]
             /\ element_results' = [element_results EXCEPT !.negative = out.result]
             /\ element_pc' = IF out.raised # "none" THEN "raised" ELSE element_pc
    /\ element_sent' = element_sent + 1
    /\ UNCHANGED << paths, type_idx, result_type >>
    /\ UNCHANGED elements
    /\ UNCHANGED << vars, extend_vars >>

\* line 572: the first graph is exhausted, the loop over ALL_TYPES begins
ElementGraphDone ==
    /\ element_pc = "graph"
    /\ element_pc' = "types"
    /\ type_idx' = 1
    /\ element_last' = NoElementRequest
    /\ UNCHANGED << paths, result_type, element_results, element_sent >>
    /\ UNCHANGED elements
    /\ UNCHANGED << vars, extend_vars >>

InTypes == element_pc = "types" /\ type_idx <= Len(ALL_TYPES)

\* lines 573-579 and 594: a type without element, or with an empty path
ElementTypeSkipped ==
    /\ InTypes
    /\ LET model_type == ALL_TYPES[type_idx]
           checking == AasTestResultOp("Checking", model_type)
       IN  IF model_type \notin DOMAIN paths
           THEN element_results' =
                    [element_results EXCEPT !.positive =
                        append(@, append(checking,
                                   AasTestResult("No such element present", WARNING)))]
           ELSE /\ paths[model_type][1] = ""
                /\ element_results' =
                       [element_results EXCEPT !.positive = append(@, checking)]
    /\ type_idx' = type_idx + 1
    /\ UNCHANGED << paths, element_pc, result_type, element_last, element_sent >>
    /\ UNCHANGED elements
    /\ UNCHANGED << vars, extend_vars >>

\* lines 573-582: a type with an element: its request graph is generated
ElementTypeBegin ==
    /\ InTypes
    /\ ALL_TYPES[type_idx] \in DOMAIN paths
    /\ paths[ALL_TYPES[type_idx]][1] # ""
    /\ result_type' = AasTestResultOp("Checking", ALL_TYPES[type_idx])
    /\ element_pc' = "requests"
    /\ element_last' = NoElementRequest
    /\ UNCHANGED << paths, type_idx, element_results, element_sent >>
    /\ UNCHANGED elements
    /\ UNCHANGED << vars, extend_vars >>

\* lines 583-593: a valid path of the graph of the current type
ElementValid ==
    /\ element_pc = "requests"
    /\ element_sent < MaxElementRequests
    /\ \E has_extend \in BOOLEAN, has_level \in BOOLEAN, response \in ElementResponses :
         LET model_type == ALL_TYPES[type_idx]
             test == ElementTest(model_type, has_extend, has_level)
             self == ApiTestSuite("SubmodelElementBySuperpathSuite", ElementOperation)
             out == IF test = "semantic"
                    THEN execute_semantic_test(self, suite, result_type, response)
                    ELSE execute_syntactic_test(result_type, ElementOperation, response)
         IN  /\ element_last' =
                    [model_type |-> model_type, is_valid |-> TRUE,
                     has_extend |-> has_extend, has_level |-> has_level,
                     test |-> test, answered |-> ~response.failed,
                     status_code |-> response.status_code,
                     appended |-> Appended(result_type, out.result)]
             /\ result_type' = out.result
             /\ element_pc' = IF out.raised # "none" THEN "raised" ELSE element_pc
    /\ element_sent' = element_sent + 1
    /\ UNCHANGED << paths, type_idx, element_results >>
    /\ UNCHANGED elements
    /\ UNCHANGED << vars, extend_vars >>

\* lines 583-585: an invalid path of the graph of the current type is skipped
ElementInvalid ==
    /\ element_pc = "requests"
    /\ element_last' = [NoElementRequest EXCEPT !.model_type = ALL_TYPES[type_idx],
                                                !.test = "none"]
    /\ UNCHANGED << paths, element_pc, type_idx, result_type, element_results, element_sent >>
    /\ UNCHANGED elements
    /\ UNCHANGED << vars, extend_vars >>

\* line 594: the graph of the current type is exhausted
ElementTypeDone ==
    /\ element_pc = "requests"
    /\ element_results' = [element_results EXCEPT !.positive = append(@, result_type)]
    /\ type_idx' = type_idx + 1
    /\ element_pc' = "types"
    /\ result_type' = NoResult
    /\ element_last' = NoElementRequest
    /\ UNCHANGED << paths, element_sent >>
    /\ UNCHANGED elements
    /\ UNCHANGED << vars, extend_vars >>

\* the loop over ALL_TYPES is exhausted, execute returns
ElementReturn ==
    /\ element_pc = "types"
    /\ type_idx > Len(ALL_TYPES)
    /\ element_pc' = "returned"
    /\ UNCHANGED << paths, type_idx, result_type, element_results, element_last,
                    element_sent >>
    /\ UNCHANGED elements
    /\ UNCHANGED << vars, extend_vars >>

NextElement ==
    \/ ElementGraphValid
    \/ ElementGraphInvalid
    \/ ElementGraphDone
    \/ ElementTypeSkipped
    \/ ElementTypeBegin
    \/ ElementValid
    \/ ElementInvalid
    \/ ElementTypeDone
    \/ ElementReturn

SpecElement == InitElement /\ [][NextElement]_element_vars

-----------------------------------------------------------------------------
(* _collect_submodel_elements and the end of SubmodelElementBySuperpathSuite.setup *)

\* elements of the listing, nested ones included
MaxMined == 2

\* the idShorts and the model types of the elements of the listing
IdShorts == { "a", "b" }
MinedTypes == { "SubmodelElementCollection", "SubmodelElementList", "Entity", "Property" }

\* a submodel element as the listing call returns it: a collection and a
\* list hold their children under "value", an entity under "statements"
Element(id_short, model_type, children) ==
    [idShort |-> id_short, modelType |-> model_type,
     value |-> IF model_type = "Entity" THEN <<>> ELSE children,
     statements |-> IF model_type = "Entity" THEN children ELSE <<>>]

RECURSIVE Size(_, _)
\* the elements of a list, nested ones included
Size(data, k) ==
    IF k > Len(data) THEN 0
    ELSE 1 + Size(data[k].value, 1) + Size(data[k].statements, 1) + Size(data, k + 1)

RECURSIVE Listings(_)
\* the lists of at most n elements, nested ones included
Listings(n) ==
    IF n = 0 THEN { <<>> }
    ELSE LET smaller == Listings(n - 1)
             fits == { c \in IdShorts \X MinedTypes \X smaller \X smaller :
                          /\ c[2] = "Property" => c[3] = <<>>
                          /\ Size(c[3], 1) + Size(c[4], 1) < n }
         IN  { <<>> } \cup { << Element(c[1], c[2], c[3]) >> \o c[4] : c \in fits }

RECURSIVE _collect_submodel_elements(_, _, _, _)
\* lines 507-517, from the k-th element of data on; returns paths
_collect_submodel_elements(data, found, path_prefix, k) ==
    IF k > Len(data) THEN found
    ELSE LET i == data[k]
             id_short == path_prefix \o i.idShort
             model_type == i.modelType
             added == IF model_type \in DOMAIN found
                      THEN [found EXCEPT ![model_type] = Append(@, id_short)]
                      ELSE found @@ (model_type :> << id_short >>)
             inner == IF model_type = "SubmodelElementCollection"
                      THEN _collect_submodel_elements(i.value, added, id_short \o ".", 1)
                      ELSE added
         IN  _collect_submodel_elements(data, inner, path_prefix, k + 1)

\* execute_tests is about to run the variant on a server with these elements
InitCollect ==
    /\ Unused
    /\ ExtendIdle
    /\ elements \in Listings(MaxMined)
    /\ paths = <<>>
    /\ element_pc = "setup"
    /\ type_idx = 0
    /\ result_type = NoResult
    /\ element_results = [positive |-> AasTestResult("Semantic tests", INFO),
                          negative |-> AasTestResult("Syntactic tests", INFO)]
    /\ element_last = NoElementRequest
    /\ element_sent = 0

\* lines 557-561: the elements of the listing are collected into self.paths
ElementSetup ==
    /\ element_pc = "setup"
    /\ paths' = _collect_submodel_elements(elements, <<>>, "", 1)
    /\ element_pc' = "graph"
    /\ UNCHANGED << elements, type_idx, result_type, element_results, element_last,
                    element_sent >>
    /\ UNCHANGED << vars, extend_vars >>

NextCollect ==
    \/ ElementSetup
    \/ ElementGraphValid
    \/ ElementGraphInvalid
    \/ ElementGraphDone
    \/ ElementTypeSkipped
    \/ ElementTypeBegin
    \/ ElementValid
    \/ ElementInvalid
    \/ ElementTypeDone
    \/ ElementReturn

SpecCollect == InitCollect /\ [][NextCollect]_element_vars

-----------------------------------------------------------------------------
(* Properties *)

\* the verdict of the nodes a test recorded for one request
Verdict(nodes) ==
    IF MaxLevel(nodes, 1) = CRITICAL THEN "CRITICAL"
    ELSE IF MaxLevel(nodes, 1) = ERROR THEN "ERROR"
    ELSE "pass"

\* a generated request that got a response was just classified
Classified == last # NoRequest /\ last.answered

\* C1: a generated request whose ground truth is valid is given the semantic
\* test by ApiTestSuite.execute, and the status-code classification records a
\* pass for a status below 400, an ERROR node for 400-499 and a CRITICAL node
\* for 500 and above; these are the only outcomes.
C1_SemanticClassification ==
    (Classified /\ last.is_valid) =>
        /\ last.test = "semantic"
        /\ last.status_code < 400 => Verdict(last.classified) = "pass"
        /\ (last.status_code >= 400 /\ last.status_code <= 499)
               => Verdict(last.classified) = "ERROR"
        /\ last.status_code >= 500 => Verdict(last.classified) = "CRITICAL"

C1_Witness ==
    /\ Classified /\ last.is_valid /\ last.test = "semantic"
    /\ last.status_code = 499
    /\ Verdict(last.classified) = "ERROR"

\* C2: a generated request whose ground truth is invalid is given the
\* syntactic test by ApiTestSuite.execute, which records a pass for a status
\* 400-499, an ERROR node for a status below 400 and a CRITICAL node for 500
\* and above.
C2_SyntacticClassification ==
    (Classified /\ ~last.is_valid) =>
        /\ last.test = "syntactic"
        /\ (last.status_code >= 400 /\ last.status_code <= 499)
               => Verdict(last.appended) = "pass"
        /\ last.status_code < 400 => Verdict(last.appended) = "ERROR"
        /\ last.status_code >= 500 => Verdict(last.appended) = "CRITICAL"

C2_Witness ==
    /\ Classified /\ ~last.is_valid /\ last.test = "syntactic"
    /\ last.status_code = 399
    /\ Verdict(last.appended) = "ERROR"

\* execute_tests returned its tree
Returned == pc = "done" /\ raised = "none"

NoneSent == sent = [probe |-> 0, setup |-> 0, generated |-> 0]

\* the node of the connectivity probe, the first child of the root
ProbeNode == result_root.sub_results[1]

\* the node of the j-th operation the loop handled
OpNode(j) == result_root.sub_results[j + 1]

HasSummary ==
    /\ Len(result_root.sub_results) >= 2
    /\ result_root.sub_results[Len(result_root.sub_results)].message = "Summary"

\* the operations of the resolved set, in the order of the registry
IsResolved(o) == o \in Range(operation_ids)
ResolvedInOrder == SelectSeq(operations, IsResolved)

Handled == [j \in 1..Len(log) |-> log[j].operation]

RECURSIVE SumAdded(_, _)
SumAdded(entries, j) ==
    IF j > Len(entries) THEN 0 ELSE entries[j].added + SumAdded(entries, j + 1)

\* C3: at the end of a run the four counters of the ConfusionMatrix sum to
\* the number of generated requests executed in the execute phases.
C3_OneCounterPerRequest ==
    (Returned /\ HasSummary) => Total(mat) = sent.generated

C5_FailuresAreCaptured == raised \in {"none", "AasTestToolsException"}

\* C6: a probe that fails at the connection level ends the run at once: the
\* probe node holds the ERROR node, the probe is the only request attempted,
\* no operation is set up or executed and no Summary node is appended.
C6_ConnectivityShortCircuit ==
    (probed.attempted /\ ~probed.answered) =>
        /\ Returned
        /\ sent = [probe |-> 1, setup |-> 0, generated |-> 0]
        /\ log = <<>>
        /\ Len(result_root.sub_results) = 1
        /\ ProbeNode.sub_results = << AasTestResult("Failed to reach", ERROR) >>
        /\ ~ok(result_root)

C6_Witness == probed.attempted /\ ~probed.answered /\ pc = "done"

\* the run ended at the probe: the tree returned holds the probe node only
AbortedAtProbe == Returned /\ Len(result_root.sub_results) = 1

\* C7: a server that answers the probe, with whatever status, does not end
\* the run: the probe node is OK and the operations are tested; the run ends
\* at the probe exactly when the probe fails at the connection level.
C7_ReachableServerProceeds ==
    /\ AbortedAtProbe <=> (probed.attempted /\ ~probed.answered)
    /\ probed.answered =>
          /\ ProbeNode.sub_results = << AasTestResult("OK", INFO) >>
          /\ ok(ProbeNode)
          /\ pc # "check_server"
          /\ Returned => HasSummary /\ Handled = ResolvedInOrder

C7_Witness ==
    /\ probed.answered /\ probed.status_code = 500
    /\ Returned /\ Len(log) > 0 /\ log[1].executed

\* C8: an unknown profile name or an unknown version raises the
\* configuration error before the probe or any other request is sent, and no
\* tree is returned.
C8_FailFastOnConfiguration ==
    (pc # "start" /\ (suite \notin SuiteNames \/ version # _DEFAULT_VERSION)) =>
        /\ pc = "done"
        /\ raised = "AasTestToolsException"
        /\ NoneSent /\ ~probed.attempted
        /\ result_root = NoResult

C8_Witness ==
    /\ pc = "done" /\ raised = "AasTestToolsException"
    /\ suite = UnknownSuite /\ version = _DEFAULT_VERSION

\* the nodes of the operations in the tree of a run that returned
OpNodes == SubSeq(result_root.sub_results, 2, Len(result_root.sub_results) - 1)

\* C9 as claimed: in a dry run no request is sent, the probe is replaced by a
\* WARNING placeholder, every operation of the resolved set is replaced by a
\* WARNING placeholder too, and the tree returned is ok().
C9_DryRunPlaceholders ==
    conf.dry =>
        /\ NoneSent
        /\ Returned =>
              /\ EffectiveLevel(ProbeNode) = WARNING
              /\ \A k \in 1..Len(OpNodes) : EffectiveLevel(OpNodes[k]) = WARNING
              /\ ok(result_root)

\* C9, amended: in a dry run no request is sent and the probe is replaced by
\* a WARNING placeholder; every operation of the resolved set contributes
\* only its own empty node of level INFO, without setup or execute; the
\* Summary node (0 / 0) is appended and the tree returned is ok().
C9_DryRun ==
    conf.dry =>
        /\ NoneSent /\ ~probed.attempted
        /\ raised \in {"none", "AasTestToolsException"}
        /\ Returned =>
              /\ ProbeNode.sub_results = << AasTestResult("Skipped due to dry run", WARNING) >>
              /\ Len(OpNodes) = Len(ResolvedInOrder)
              /\ \A k \in 1..Len(OpNodes) :
                    OpNodes[k] = AasTestResultOp("Checking", ResolvedInOrder[k])
              /\ HasSummary
              /\ mat = ConfusionMatrix
              /\ ok(result_root)

C9_Witness ==
    /\ conf.dry /\ Returned /\ HasSummary
    /\ Len(OpNodes) = 2

\* C10: every operation of the resolved set gets the variant registered for
\* its id, or the default variant when none is registered; the dispatch of
\* an operation of the resolved set and of the registry never fails.
C10_VariantDispatch ==
    \A j \in 1..Len(log) :
        log[j].setup # "dry" =>
            /\ log[j].cls = IF log[j].operation \in DOMAIN _test_suites
                            THEN _test_suites[log[j].operation]
                            ELSE "ApiTestSuite"
            /\ ~(raised = "KeyError" /\ log[j].generated = 0 /\ log[j].cls = "")

\* C11: against a reachable server that answers every request with a 5xx
\* status, the execute phase of every operation of the resolved set is run,
\* every generated request, valid or invalid, is classified CRITICAL, and
\* execute_tests returns its tree without raising.
C11_CrashingServer ==
    (crashing /\ probed.answered) =>
        /\ raised = "none"
        /\ Classified => Verdict(last.appended) = "CRITICAL"
        /\ \A j \in 1..Len(log) : log[j].setup \in {"pending", "ok"}
        /\ Returned =>
              /\ HasSummary /\ Handled = ResolvedInOrder
              /\ \A j \in 1..Len(log) : log[j].executed

\* C12: a 5xx answer to a generated request is recorded as a CRITICAL node
\* and the run goes on; in the ConfusionMatrix the request counts as a failed
\* test only: valid_rejected for a valid request, invalid_accepted for an
\* invalid one, never valid_accepted or invalid_rejected.
C12_ServerCrashCounted ==
    /\ (Classified /\ last.status_code >= 500) =>
           /\ Verdict(last.appended) = "CRITICAL"
           /\ raised = "none" /\ pc = "execute"
    /\ \A j \in 1..Len(log) :
          log[j].executed =>
             LET t == log[j].tally
                 c == log[j].counted
             IN  /\ c.valid_rejected >= t[<<TRUE, "5xx">>]
                 /\ c.invalid_accepted >= t[<<FALSE, "5xx">>]
                 /\ c.valid_accepted <= t[<<TRUE, "lt400">>] + t[<<TRUE, "4xx">>]
                 /\ c.invalid_rejected <= t[<<FALSE, "lt400">>] + t[<<FALSE, "4xx">>]

\* C13: after _extend the list of every profile holds leaf operation ids
\* only: no member is itself a key of the table and every member is an
\* operation id of the API contract, so that the sanity check of
\* execute_tests never fails for a profile of the table.
C13_LeafOperationIds ==
    (pc # "start" /\ version = _DEFAULT_VERSION /\ HasKey(_available_suites, suite)) =>
        /\ \A member \in Range(Lookup(_available_suites, suite)) :
              /\ ~HasKey(_available_suites, member)
              /\ member \in Range(operations)
        /\ raised # "AasTestToolsException"

\* the names reachable from the key k of t in one or more steps
Reachable(t, k) == ReachFrom(t, Range(Lookup(t, k)))

\* a name of t reachable from itself
Cyclic(t) == \E j \in 1..Len(t) : t[j].key \in Reachable(t, t[j].key)

\* the leaves of the key k of t: what is reachable and is no key
Leaves(t, k) == {m \in Reachable(t, k) : ~HasKey(t, m)}

ExtendReturned == extend_pc = "returned"

\* C14: the list _extend returns for a profile holds exactly the leaf
\* operation ids of its members: an id is in the list if and only if it is
\* reachable from the profile through the member relation of the original
\* table and is not itself a key of the table.
C14_UnionOfLeaves ==
    ExtendReturned =>
        /\ Len(extend_data) = Len(table)
        /\ \A j \in 1..Len(table) :
              /\ extend_data[j].key = table[j].key
              /\ Range(extend_data[j].values) = Leaves(table, table[j].key)

\* a profile of profiles of operations, resolved in more than one pass, with
\* two leaves
C14_Witness ==
    /\ ExtendReturned
    /\ passes = 3
    /\ table[1].values = << ProfileKeys[2] >>
    /\ table[2].values = << ProfileKeys[3] >>
    /\ Range(extend_data[1].values) = LeafIds

\* no name occurs twice in the list
DuplicateFree(values) ==
    \A i, k \in 1..Len(values) : values[i] = values[k] => i = k

\* C15: resolution of a table whose own lists are duplicate-free returns
\* duplicate-free lists, also when two members of a profile share an
\* operation id, and resolving the resolved table again returns it unchanged.
C15_DuplicateFreeIdempotent ==
    (ExtendReturned /\ \A j \in 1..Len(table) : DuplicateFree(table[j].values)) =>
        /\ \A j \in 1..Len(extend_data) : DuplicateFree(extend_data[j].values)
        /\ _extend(extend_data) = extend_data

\* C16: a table with a cycle is rejected: its resolution ends in the
\* CyclicProfile error, never returns lists, and is not still going on after
\* more passes than a table of its size without a cycle can take.
C16_CycleGuard ==
    Cyclic(table) =>
        /\ ~ExtendReturned
        /\ passes > Len(table) => extend_pc = "CyclicProfile"

\* the nodes a test appended after those of the status-code classification
ContentCheck ==
    SubSeq(last.appended, Len(last.classified) + 1, Len(last.appended))

\* C17: a valid request of the self-description operation gets, after the
\* base status-code classification and whatever the status, an ERROR node if
\* and only if the profile under test is absent from "Profiles" of the
\* response body; in the ConfusionMatrix the request counts by its status
\* alone: valid_accepted for a status below 400, and the content check adds
\* nothing to valid_rejected.
C17_SelfDescriptionContentCheck ==
    /\ (Classified /\ last.advertised \in {"yes", "no"}) =>
          /\ raised = "none"
          /\ last.advertised = "yes" => ContentCheck = << >>
          /\ last.advertised = "no" =>
                ContentCheck = << AasTestResult("Suite not part of profiles", ERROR) >>
    /\ \A j \in 1..Len(log) :
          (log[j].executed /\ log[j].cls = "GetDescriptionTestSuite") =>
              /\ log[j].counted.valid_accepted = log[j].tally[<<TRUE, "lt400">>]
              /\ log[j].counted.valid_rejected =
                     log[j].tally[<<TRUE, "4xx">>] + log[j].tally[<<TRUE, "5xx">>]

\* every generated request of the run was valid and was answered with a
\* status below 400 and a body advertising the profile under test
AnsweredSuccessfully ==
    \A j \in 1..Len(log) :
        /\ log[j].generated = log[j].tally[<<TRUE, "lt400">>]
        /\ log[j].unadvertised = 0

\* C18: the profile "Description API" resolves to exactly the operation
\* GetSelfDescription, and a run of it against a reachable server that
\* answers that operation successfully with a body advertising
\* "Description API" returns a tree that is ok(), with the request counted
\* as valid_accepted and nothing as valid_rejected.
C18_DescriptionApiEndToEnd ==
    /\ HasKey(_available_suites, "Description API")
    /\ Lookup(_available_suites, "Description API") = << "GetSelfDescription" >>
    /\ ( /\ suite = "Description API" /\ version = _DEFAULT_VERSION /\ ~conf.dry
         /\ pc = "done"
         /\ probed.attempted => probed.answered
         /\ AnsweredSuccessfully ) =>
            /\ Returned /\ HasSummary /\ ok(result_root)
            /\ Len(log) = 1 /\ log[1].operation = "GetSelfDescription" /\ log[1].executed
            /\ mat.valid_accepted = sent.generated
            /\ mat.valid_rejected = 0

\* a valid request of the loop over ALL_TYPES was just given a test and
\* answered
ElementTested ==
    /\ element_last.is_valid /\ element_last.model_type # ""
    /\ element_last.test # "none" /\ element_last.answered

\* the verdict the semantic, resp. syntactic, test gives a status
VerdictOf(test, status_code) ==
    IF status_code >= 500 THEN "CRITICAL"
    ELSE IF test = "semantic"
         THEN IF status_code >= 400 THEN "ERROR" ELSE "pass"
         ELSE IF status_code >= 400 THEN "pass" ELSE "ERROR"

CompositeTypes == {"SubmodelElementCollection", "SubmodelElementList", "Entity"}

\* the request carries neither 'extend' nor 'level'
Unmodified == ~element_last.has_extend /\ ~element_last.has_level

\* the recorded test and the nodes it appended are those of the test `test`
TestedAs(test) ==
    /\ element_last.test = test
    /\ Verdict(element_last.appended) = VerdictOf(test, element_last.status_code)

\* C19 as claimed: a valid request for an element of a composite type gets
\* the semantic test; for any other type it gets the semantic test only if
\* it carries neither 'extend' nor 'level', and the syntactic test otherwise.
C19_ElementTestTable ==
    ElementTested =>
        IF element_last.model_type \in CompositeTypes \/ Unmodified
        THEN TestedAs("semantic")
        ELSE TestedAs("syntactic")

\* C19, amended: as claimed, except that a Blob gets the semantic test also
\* when the request carries 'extend', as long as it carries no 'level'.
C19_ElementTestTableBlob ==
    ElementTested =>
        IF \/ element_last.model_type \in CompositeTypes
           \/ Unmodified
           \/ (element_last.model_type = "Blob" /\ ~element_last.has_level)
        THEN TestedAs("semantic")
        ELSE TestedAs("syntactic")

C19_Witness ==
    /\ ElementTested
    /\ element_last.model_type = "Blob"
    /\ element_last.has_extend /\ ~element_last.has_level
    /\ element_last.status_code = 200
    /\ Verdict(element_last.appended) = "pass"

RECURSIVE Levels(_)
\* the severities of a node and of all its descendants
Levels(node) ==
    {node.level} \cup
    UNION {Levels(node.sub_results[i]) : i \in 1..Len(node.sub_results)}

\* the trees execute_tests holds
Trees == {result_root, result_op, result_positive, result_negative}

\* C20: ok() of a node is false if and only if the node itself or a
\* descendant at any depth has severity ERROR or CRITICAL; a tree of INFO and
\* WARNING nodes only is ok().
C20_SeverityReduction ==
    \A node \in Trees :
        /\ ~ok(node) <=> (ERROR \in Levels(node) \/ CRITICAL \in Levels(node))
        /\ Levels(node) \subseteq {INFO, WARNING} => ok(node)

\* a tree that is not ok() for an ERROR node below the children of its root,
\* next to a WARNING-free root whose children are all INFO themselves
C20_Witness ==
    /\ Returned /\ HasSummary
    /\ ~ok(result_root)
    /\ result_root.level = INFO
    /\ \A i \in 1..Len(result_root.sub_results) : result_root.sub_results[i].level = INFO
    /\ ERROR \in Levels(result_root)
    /\ CRITICAL \notin Levels(result_root)

\* the run got past the connectivity probe
PassedProbe ==
    /\ result_root # NoResult
    /\ Len(result_root.sub_results) >= 1
    /\ ok(ProbeNode)

\* execute_tests is left, by return or by an exception
Ended == pc = "done"

\* an operation the loop handled to its end (line 722 or line 745)
IsProcessed(e) == e.setup \in {"dry", "failed"} \/ e.executed
Processed == [j \in 1..Len(SelectSeq(log, IsProcessed)) |->
                 SelectSeq(log, IsProcessed)[j].operation]

IsPrefix(s, t) == Len(s) <= Len(t) /\ s = SubSeq(t, 1, Len(s))

\* the part of C21 that holds in every run: the operations handled so far
\* are the first of the resolved set in registry order, none twice, and a
\* generated request belongs to the operation being handled
HandledInOrder ==
    PassedProbe =>
        /\ IsPrefix(Handled, ResolvedInOrder)
        /\ \A j, k \in 1..Len(log) : log[j].operation = log[k].operation => j = k
        /\ last # NoRequest =>
              /\ last.operation = log[Len(log)].operation
              /\ last.operation \in Range(operation_ids)
        /\ Returned => Processed = ResolvedInOrder

\* C21: in a run that passes the probe, the operations processed are exactly
\* the operations of the resolved set, in the order of the registry, each
\* once, and every generated request belongs to an operation of the
\* resolved set. Stated for the runs in which the server answers every
\* request, so that a lost connection is not held against the claim.
C21_OperationSelectionAndOrder ==
    /\ HandledInOrder
    /\ (PassedProbe /\ Ended /\ raised # "RequestException")
           => Processed = ResolvedInOrder

RECURSIVE SumTally(_, _, _)
\* generated requests of the operations executed, by ground truth and class
\* of the status
SumTally(entries, key, j) ==
    IF j > Len(entries) THEN 0
    ELSE (IF entries[j].executed THEN entries[j].tally[key] ELSE 0)
         + SumTally(entries, key, j + 1)

SummaryNode == result_root.sub_results[Len(result_root.sub_results)]

\* the part of C22 that holds: a run that returns after the probe ends with
\* the Summary node, which reports the two ratios of the ConfusionMatrix
SummaryReportsMatrix ==
    (Returned /\ PassedProbe) =>
        /\ HasSummary
        /\ Len(SummaryNode.sub_results) = 2
        /\ SummaryNode.sub_results[1].n =
               << mat.invalid_rejected, mat.invalid_accepted + mat.invalid_rejected >>
        /\ SummaryNode.sub_results[2].n =
               << mat.valid_accepted, mat.valid_accepted + mat.valid_rejected >>

\* the counts of C22 in the runs that return: violated by a 5xx answer
SummaryCountsByStatus ==
    (Returned /\ PassedProbe) =>
        /\ mat.invalid_rejected = SumTally(log, <<FALSE, "4xx">>, 1)
        /\ mat.valid_accepted = SumTally(log, <<TRUE, "lt400">>, 1)

\* C22: every run that ends neither in a configuration error nor in a
\* connectivity failure ends by appending the Summary node as the last child
\* of the root; the node reports invalid_rejected / (invalid_accepted +
\* invalid_rejected) and valid_accepted / (valid_accepted + valid_rejected),
\* where invalid_rejected is the number of invalid requests answered 400-499
\* and valid_accepted the number of valid requests answered below 400.
C22_Summary ==
    /\ (Ended /\ PassedProbe
           /\ raised \notin {"AasTestToolsException", "RequestException"}) => Returned
    /\ SummaryReportsMatrix
    /\ SummaryCountsByStatus

KeyIndex(t, k) == CHOOSE j \in 1..Len(t) : t[j].key = k

\* what a pass puts in the place of the member m of the list of the j-th
\* key: m itself when it is no key, else the list of m at that moment, which
\* is its new list when m's own turn came earlier in the pass
Expansion(old, new, j, m) ==
    IF ~HasKey(old, m) THEN << m >>
    ELSE IF KeyIndex(old, m) < j THEN new[KeyIndex(old, m)].values
    ELSE old[KeyIndex(old, m)].values

RECURSIVE Flatten(_, _)
Flatten(lists, i) == IF i > Len(lists) THEN <<>> ELSE lists[i] \o Flatten(lists, i + 1)

\* a pass replaces every member that is a key by that key's current list and
\* keeps every other member, in place and in order
PassSubstitutesCurrent ==
    passes' = passes + 1 =>
        /\ Len(extend_data') = Len(extend_data)
        /\ \A j \in 1..Len(extend_data) :
              /\ extend_data'[j].key = extend_data[j].key
              /\ extend_data'[j].values =
                     Flatten([i \in 1..Len(extend_data[j].values) |->
                                 Expansion(extend_data, extend_data', j,
                                           extend_data[j].values[i])], 1)

\* _extend returns after the first pass without a substitution and after no
\* other; on a table without a cycle the passes are bounded by the number of
\* keys, and within the bounds followed no pass of such a table is cut off
PassesStopAtFixpoint ==
    /\ Len(substituted) = passes
    /\ \A p \in 1..passes : substituted[p] = 0 <=> (p = passes /\ ExtendReturned)
    /\ ExtendReturned => passes >= 1
    /\ ~Cyclic(table) =>
          /\ passes <= Len(table) + 1
          /\ extend_pc = "while" =>
                LET pass == ExtendPass(extend_data, 1, TRUE) IN
                pass.all_resolved
                    \/ (passes < MaxPasses /\ Longest(pass.data) <= MaxExpansion)

\* C23: on every table without a cycle _extend terminates after finitely
\* many full passes; it stops exactly after the first pass that performs no
\* substitution; each pass replaces every member that is a key of the table
\* by that key's current expansion, which may be the one made earlier in the
\* same pass.
C23_FixpointTermination ==
    /\ []PassesStopAtFixpoint
    /\ [][PassSubstitutesCurrent]_extend_vars
    /\ (extend_pc = "while" /\ ~Cyclic(table)) ~> ExtendReturned

\* Profile B is replaced by the list Profile A was given earlier in the same
\* pass, so that the second pass has nothing left to substitute
C23_Witness ==
    /\ ExtendReturned
    /\ table = Table(<< ProfileKeys[3] >>, << ProfileKeys[1] >>, << "GetThing" >>)
    /\ substituted = << 2, 0 >>
    /\ extend_data[2].values = << "GetThing" >>

\* the children of an element, wherever its type keeps them
Children(e) == e.value \o e.statements

RECURSIVE PreOrder(_, _, _, _)
\* the elements of data from the k-th on in pre-order, each with its
\* qualified path, going down into the elements whose type is in types
PreOrder(data, path_prefix, types, k) ==
    IF k > Len(data) THEN <<>>
    ELSE LET id_short == path_prefix \o data[k].idShort IN
         << [path |-> id_short, modelType |-> data[k].modelType] >>
         \o (IF data[k].modelType \in types
             THEN PreOrder(Children(data[k]), id_short \o ".", types, 1)
             ELSE <<>>)
         \o PreOrder(data, path_prefix, types, k + 1)

\* the paths of the visits of one type, in the order of the visits
PathsOfType(visits, model_type) ==
    LET OfType(v) == v.modelType = model_type
        chosen == SelectSeq(visits, OfType)
    IN  [n \in 1..Len(chosen) |-> chosen[n].path]

\* the visits grouped by model type
Grouped(visits) ==
    [model_type \in {visits[n].modelType : n \in 1..Len(visits)} |->
        PathsOfType(visits, model_type)]

\* setup has collected the elements
Mined == element_pc \notin {"idle", "setup"}

\* what _collect_submodel_elements does: only collections are gone into
MinedThroughCollections ==
    Mined => paths = Grouped(PreOrder(elements, "", {"SubmodelElementCollection"}, 1))

\* the node the type loop recorded for the k-th type of ALL_TYPES
TypeNode(k) == element_results.positive.sub_results[k]

\* a type of ALL_TYPES without a path gets a node with the WARNING and
\* nothing else, which is ok()
AbsentTypeWarned ==
    \A k \in 1..Len(element_results.positive.sub_results) :
        ALL_TYPES[k] \notin DOMAIN paths =>
            /\ TypeNode(k).op = ALL_TYPES[k]
            /\ TypeNode(k).sub_results =
                   << AasTestResult("No such element present", WARNING) >>
            /\ ok(TypeNode(k))

\* C24: every element of the listing is grouped under its model type; every
\* element of a composite type (SubmodelElementCollection,
\* SubmodelElementList, Entity) is gone into with its qualified path and '.'
\* as prefix; the path used for a type is its first in pre-order; a type of
\* ALL_TYPES without an element gets a WARNING node, no request, and does
\* not fail the operation.
C24_ElementMining ==
    /\ Mined =>
          LET claimed == Grouped(PreOrder(elements, "", CompositeTypes, 1)) IN
          /\ DOMAIN paths = DOMAIN claimed
          /\ \A model_type \in DOMAIN claimed :
                paths[model_type][1] = claimed[model_type][1]
    /\ AbsentTypeWarned

====
